---- MODULE Spec2Model ----
(***************************************************************************)
(* Model of the browser image generator:                                   *)
(*   - GeminiImageAPI (src/unnamed/part_000): key and prompt validation,   *)
(*     best-effort prompt enhancement, the ordered fallthrough over the    *)
(*     image backends, assembly of the GenerationResult;                   *)
(*   - ImageGeneratorApp (src/assets/js/main.js): the form controller, its *)
(*     in-flight guard, the result display and the persisted history.      *)
(*                                                                         *)
(* Strings are modelled by the facts the code reads from them: a JS value  *)
(* is a record [kind, text, pad, core] where, for a string, core is the    *)
(* length of the text left by String.prototype.trim() and pad the number   *)
(* of whitespace characters trim() removes.  Every await on a network      *)
(* request or an image load is one step whose outcome the environment      *)
(* chooses; code between two awaits runs inside one step, as it does on    *)
(* the single-threaded event loop.                                         *)
(***************************************************************************)
EXTENDS Integers, Sequences, FiniteSets, TLC

\* ------------------------------------------------------------------ bounds
\* Largest number of whitespace characters around a string argument.
MaxPad == 1
\* Prompt lengths tried around the limit: MaxPromptLength - Margin .. + Margin.
Margin == 1
\* Calls of GeminiImageAPI.generateImage in one behaviour.
MaxCalls == 2
\* Pipelines the client could run at once (the client itself has no guard).
MaxPipes == 2
\* Generations in one behaviour of the history's specification: past the
\* limit of the history, so that an entry is evicted.
MaxInserts == 52

\* ------------------------------------------------------- program constants
\* `prompt.trim().length > 500`
MaxPromptLength == 500
\* /^AIza[0-9A-Za-z-_]{35}$/
KeyBodyLength == 35

\* ------------------------------------------------------------- JS values
\* null / undefined
JSNull == [kind |-> "null", text |-> "none", pad |-> 0, core |-> 0]
\* a truthy value that is not a string (a number, an object)
JSOther == [kind |-> "other", text |-> "none", pad |-> 0, core |-> 0]

\* A string of `core` characters after trimming, with `pad` surrounding
\* whitespace characters; `text` names where its content comes from.
Str(text, pad, core) == [kind |-> "string", text |-> text, pad |-> pad, core |-> core]

IsString(v) == v.kind = "string"

\* String.prototype.length
Length(s) == s.pad + s.core

\* String.prototype.trim()
Trim(s) == [s EXCEPT !.pad = 0]

\* JS truthiness of a value: null, undefined and '' are falsy.
Truthy(v) == v.kind = "other" \/ (v.kind = "string" /\ Length(v) > 0)

\* a || b
OrElse(a, b) == IF Truthy(a) THEN a ELSE b

\* ------------------------------------------------------------- API keys
\* A key argument: [kind, pad, prefix, bodyLen, bodyOK]: `pad` whitespace
\* characters around prefix . body, where body has bodyLen characters and
\* bodyOK says whether all of them are in [0-9A-Za-z-_].
Key(pad, prefix, bodyLen, bodyOK) ==
    [kind |-> "string", pad |-> pad, prefix |-> prefix, bodyLen |-> bodyLen, bodyOK |-> bodyOK]

NullKey == [kind |-> "null", pad |-> 0, prefix |-> <<>>, bodyLen |-> 0, bodyOK |-> TRUE]
OtherKey == [kind |-> "other", pad |-> 0, prefix |-> <<>>, bodyLen |-> 0, bodyOK |-> TRUE]
EmptyKey == Key(0, <<>>, 0, TRUE)

AIza == <<"A", "I", "z", "a">>

KeyLength(k) == k.pad + Len(k.prefix) + k.bodyLen

\* apiKey.trim()
TrimKey(k) == [k EXCEPT !.pad = 0]

\* /^AIza[0-9A-Za-z-_]{35}$/.test(s)
apiKeyPattern(s) ==
    /\ s.pad = 0
    /\ s.prefix = AIza
    /\ s.bodyLen = KeyBodyLength
    /\ s.bodyOK

\* GeminiImageAPI.validateApiKey
validateApiKey(apiKey) ==
    IF apiKey.kind # "string" \/ KeyLength(apiKey) = 0
    THEN FALSE
    ELSE apiKeyPattern(TrimKey(apiKey))

\* ------------------------------------------------------------- messages
\* 'مفتاح API غير صحيح. يرجى التحقق من المفتاح والمحاولة مرة أخرى.'
ERR_INVALID_KEY == "invalid api key"
\* 'يرجى إدخال وصف للصورة المطلوبة.'
ERR_EMPTY_PROMPT == "enter a description"
\* 'وصف الصورة طويل جداً. يرجى استخدام أقل من 500 حرف.'
ERR_PROMPT_TOO_LONG == "description too long"
\* 'جميع خدمات توليد الصور غير متوفرة حالياً.'
ERR_ALL_UNAVAILABLE == "all image services unavailable"
\* 'حدث خطأ غير متوقع. يرجى المحاولة مرة أخرى.'
ERR_UNEXPECTED == "unexpected error"
\* the message of the TypeError raised by calling .trim on a non-string
ERR_TYPE == "prompt.trim is not a function"

\* ------------------------------------------------------------- outcomes
\* What a call produces: a returned value or a thrown error (a rejected
\* promise, for an async function).
Value(v) == [kind |-> "value", val |-> v]
Throw(msg) == [kind |-> "throw", val |-> msg]

\* ------------------------------------------------------- image references
\* A non-empty URL or data payload; `text` names the backend it came from.
Url(text) == Str(text, 0, 1)

\* data.output_url of a DeepAI answer that carries one
DeepAIUrl == Url("deepai output_url")
\* https://image.pollinations.ai/prompt/<prompt>?width=768&...&seed=<seed>
PollinationsUrl == Url("pollinations url")
\* URL.createObjectURL(blob)
BlobUrl == Url("blob object url")
\* https://source.unsplash.com/768x768/?<prompt>
UnsplashUrl == Url("unsplash url")
\* canvas.toDataURL('image/jpeg', 0.9) of the gradient canvas
CanvasDataUrl == Url("canvas gradient data url")
\* canvas.toDataURL('image/jpeg', 0.9) of the plain rectangle
PlainDataUrl == Url("canvas plain data url")

\* ----------------------------------------------------- environment choices
\* The answer to the enhancement POST: the request fails; a non-2xx status;
\* a body that is not JSON; JSON without candidates; a candidate whose
\* content has no parts; a text that is empty once cleaned; a usable text.
GeminiResponses ==
    {"reject", "notOk", "badJson", "noCandidates", "malformed", "emptyText", "text"}

\* The answer to the DeepAI POST; "noUrl": JSON with a missing or empty output_url.
DeepAIResponses == {"reject", "notOk", "badJson", "noUrl", "url"}

\* The events of an Image element given a src; "loadEmpty": onload with
\* naturalWidth or naturalHeight 0.
ImageEvents == {"load", "loadEmpty", "error"}

\* The answer to the Stability POST; "badBase64": an artifact atob() rejects.
StabilityResponses == {"reject", "notOk", "badJson", "noArtifacts", "badBase64", "artifacts"}

\* The canvas: "ok" draws; "gradientThrows": the gradient drawing throws and
\* the plain rectangle draws; "unavailable": getContext('2d') gives null, so
\* both the try block and the catch block throw.
CanvasStates == {"ok", "gradientThrows", "unavailable"}

\* --------------------------------------------------------------- backends
\* The fixed list of generateImageFromPrompt.
services == <<"DeepAI", "Pollinations", "StableDiffusion", "Fallback">>

\* An outcome that leaves the strategy waiting for one more event.
Await(what) == [kind |-> "await", val |-> what]

\* generateWithDeepAI up to its image check
generateWithDeepAI(resp) ==
    CASE resp = "reject" -> Throw("Failed to fetch")
      [] resp = "badJson" -> Throw("Unexpected token in JSON")
      [] resp \in {"notOk", "noUrl"} -> Throw("DeepAI service failed")
      [] resp = "url" -> Await("deepai image")

\* generateWithDeepAI: the promise around the Image element
generateWithDeepAIImage(ev) ==
    IF ev \in {"load", "loadEmpty"}
    THEN Value(DeepAIUrl)
    ELSE Throw("Invalid image from DeepAI")

\* generateWithPollinations
generateWithPollinations(ev) ==
    CASE ev = "load" -> Value(PollinationsUrl)
      [] ev = "loadEmpty" -> Throw("Invalid image received")
      [] ev = "error" -> Throw("Pollinations service failed")

\* The try block of generateWithStableDiffusionAPI
stableDiffusionTry(resp) ==
    CASE resp = "reject" -> Throw("Failed to fetch")
      [] resp = "badJson" -> Throw("Unexpected token in JSON")
      [] resp \in {"notOk", "noArtifacts"} -> Throw("Stability AI service failed")
      [] resp = "badBase64" -> Throw("The string to be decoded is not correctly encoded")
      [] resp = "artifacts" -> Value(BlobUrl)

\* generateWithStableDiffusionAPI whose catch block rethrows.
generateWithStableDiffusionAPIRethrow(resp) == stableDiffusionTry(resp)

\* generateWithStableDiffusionAPI: the catch block returns generateWithSimpleAPI
generateWithStableDiffusionAPI(resp) ==
    LET r == stableDiffusionTry(resp)
    IN  IF r.kind = "throw" THEN Await("simple image") ELSE r

\* generateWithSimpleAPI
generateWithSimpleAPI(ev) ==
    IF ev \in {"load", "loadEmpty"}
    THEN Value(UnsplashUrl)
    ELSE Throw("Simple API failed")

\* A fallback whose catch block gives up with an empty value instead of drawing.
generateWithFallbackServiceEmpty(canvas) ==
    IF canvas = "ok" THEN Value(CanvasDataUrl) ELSE Value(Str("empty", 0, 0))

\* generateWithFallbackService
generateWithFallbackService(canvas) ==
    CASE canvas = "ok" -> Value(CanvasDataUrl)
      [] canvas = "gradientThrows" -> Value(PlainDataUrl)
      [] canvas = "unavailable" -> Throw("Cannot set properties of null")

\* ------------------------------------------------------------ enhancement
\* A cleaned enhanced description (its length is not read by the code).
GeminiText == Str("gemini", 0, 1)

\* The try block of enhancePromptWithGemini
enhanceTry(resp) ==
    CASE resp = "reject" -> Throw("Failed to fetch")
      [] resp = "notOk" -> Value(JSNull)
      [] resp = "badJson" -> Throw("Unexpected token in JSON")
      [] resp = "noCandidates" -> Value(JSNull)
      [] resp = "malformed" -> Throw("Cannot read properties of undefined")
      [] resp = "emptyText" -> Value(Str("gemini", 0, 0))
      [] resp = "text" -> Value(GeminiText)

\* enhancePromptWithGemini without its catch block.
enhancePromptWithGeminiNoCatch(resp) == enhanceTry(resp)

\* enhancePromptWithGemini: every error is caught and null returned
enhancePromptWithGemini(resp) ==
    LET r == enhanceTry(resp)
    IN  IF r.kind = "throw" THEN Value(JSNull) ELSE r

\* ------------------------------------------------------------- validation
\* Validation with the blank test made on the untrimmed prompt.
validateInputsNoTrim(apiKey, prompt) ==
    IF ~validateApiKey(apiKey) THEN Throw(ERR_INVALID_KEY)
    ELSE IF ~Truthy(prompt) THEN Throw(ERR_EMPTY_PROMPT)
    ELSE IF ~IsString(prompt) THEN Throw(ERR_TYPE)
    ELSE IF Length(prompt) = 0 THEN Throw(ERR_EMPTY_PROMPT)
    ELSE IF Length(prompt) > MaxPromptLength THEN Throw(ERR_PROMPT_TOO_LONG)
    ELSE Value(Trim(prompt))

\* generateImage, "Validate inputs": the three tests before the first await;
\* the value is prompt.trim(), the text handed on.
validateInputs(apiKey, prompt) ==
    IF ~validateApiKey(apiKey) THEN Throw(ERR_INVALID_KEY)
    ELSE IF ~Truthy(prompt) THEN Throw(ERR_EMPTY_PROMPT)
    ELSE IF ~IsString(prompt) THEN Throw(ERR_TYPE)
    ELSE IF Length(Trim(prompt)) = 0 THEN Throw(ERR_EMPTY_PROMPT)
    ELSE IF Length(Trim(prompt)) > MaxPromptLength THEN Throw(ERR_PROMPT_TOO_LONG)
    ELSE Value(Trim(prompt))

\* ------------------------------------------------------------ the result
\* The object generateImage returns after image resolution.
successResult(imageUrl, prompt, enhancedPrompt, now) ==
    [success |-> TRUE, imageUrl |-> imageUrl, prompt |-> Trim(prompt),
     enhancedPrompt |-> enhancedPrompt, timestamp |-> now]

\* A catch block that handles validation errors and rethrows the others.
generateImageCatchRethrow(message, now) ==
    IF message \in {ERR_INVALID_KEY, ERR_EMPTY_PROMPT, ERR_PROMPT_TOO_LONG}
    THEN Value([success |-> FALSE, error |-> message, timestamp |-> now])
    ELSE Throw(message)

\* The catch block of generateImage: error.message || the default text
generateImageCatch(message, now) ==
    Value([success |-> FALSE,
           error |-> IF message = "" THEN ERR_UNEXPECTED ELSE message,
           timestamp |-> now])

\* ------------------------------------------------------- the service loop
\* The loop without its `return imageUrl`: it goes on to the next service.
loopStepNoReturn(i, out) ==
    IF out.kind = "throw" /\ i = Len(services)
    THEN [do |-> "throw", val |-> ERR_ALL_UNAVAILABLE]
    ELSE IF out.kind = "value" /\ i = Len(services)
    THEN [do |-> "return", val |-> out.val]
    ELSE [do |-> "next", val |-> JSNull]

\* The loop throwing on the first failing service.
loopStepThrowFirst(i, out) ==
    IF out.kind = "value" /\ Truthy(out.val)
    THEN [do |-> "return", val |-> out.val]
    ELSE IF out.kind = "throw"
    THEN [do |-> "throw", val |-> ERR_ALL_UNAVAILABLE]
    ELSE [do |-> "next", val |-> JSNull]

\* The loop passing on the last service's own error.
loopStepRawError(i, out) ==
    IF out.kind = "value" /\ Truthy(out.val)
    THEN [do |-> "return", val |-> out.val]
    ELSE IF out.kind = "throw" /\ i = Len(services)
    THEN [do |-> "throw", val |-> out.val]
    ELSE [do |-> "next", val |-> JSNull]

\* One turn of the for loop of generateImageFromPrompt, service i (1-based)
\* having produced `out`: return its truthy value, throw after the last
\* service threw, otherwise go on (i++).
loopStep(i, out) ==
    IF out.kind = "value" /\ Truthy(out.val)
    THEN [do |-> "return", val |-> out.val]
    ELSE IF out.kind = "throw" /\ i = Len(services)
    THEN [do |-> "throw", val |-> ERR_ALL_UNAVAILABLE]
    ELSE [do |-> "next", val |-> JSNull]

\* ------------------------------------------------------------ pipelines
\* One call of GeminiImageAPI.generateImage: its arguments, its position
\* (pc), the enhanced prompt, the text handed to the services, the index of
\* the service being tried, the services invoked so far with their outcome,
\* the network requests and image loads issued, and the settled result.
NoResult == [none |-> TRUE]

IdlePipe ==
    [pc |-> "idle", caller |-> "none", apiKey |-> NullKey, prompt |-> JSNull,
     enhanced |-> JSNull, text |-> JSNull, i |-> 0, tried |-> <<>>, net |-> <<>>,
     canvas |-> "unused", result |-> NoResult]

InFlight(p) == p.pc \notin {"idle", "done", "rejected"}

\* A request or image load: its target, the key sent with it, the prompt in it.
Request(to, key, text) == [to |-> to, key |-> key, text |-> text]

\* The position a pipeline waits at once service k has been invoked.
WaitOf(k) ==
    CASE services[k] = "DeepAI" -> "deepai fetch"
      [] services[k] = "Pollinations" -> "pollinations image"
      [] services[k] = "StableDiffusion" -> "stability fetch"
      [] services[k] = "Fallback" -> "canvas"

\* The request a service issues when invoked.
TargetOf(k) ==
    CASE services[k] = "DeepAI" -> "api.deepai.org"
      [] services[k] = "Pollinations" -> "image.pollinations.ai"
      [] services[k] = "StableDiffusion" -> "api.stability.ai"
      [] services[k] = "Fallback" -> "none"

\* The end of generateImage: the result object, or the catch block's.
settle(p, body, now) ==
    LET r == IF body.kind = "value"
             THEN Value(successResult(body.val, p.prompt, p.enhanced, now))
             ELSE generateImageCatch(body.val, now)
    IN  IF r.kind = "value"
        THEN [p EXCEPT !.pc = "done", !.result = r.val]
        ELSE [p EXCEPT !.pc = "rejected", !.result = [rejected |-> r.val]]

\* services[k]() is called: the service is logged and, unless it is the
\* synchronous canvas fallback, its request goes out.
invoke(p, k) ==
    [p EXCEPT !.i = k,
              !.pc = WaitOf(k),
              !.tried = Append(@, [svc |-> services[k], out |-> "pending", val |-> JSNull]),
              !.net = IF services[k] = "Fallback" THEN @
                      ELSE Append(@, Request(TargetOf(k), NullKey, p.text))]

\* The outcome of the service being tried is written into the log.
noteOutcome(p, out) ==
    [p EXCEPT !.tried[Len(p.tried)] =
        [svc |-> @.svc,
         out |-> IF out.kind = "throw" THEN "threw"
                 ELSE IF Truthy(out.val) THEN "returned" ELSE "empty",
         val |-> IF out.kind = "value" THEN out.val ELSE JSNull]]

RECURSIVE conclude(_, _, _, _)
\* Service p.i has produced `out`: the loop returns, throws or invokes the
\* next service; the canvas fallback runs at once, the others wait for the network.
conclude(p, out, canvas, now) ==
    LET q == noteOutcome(p, out)
        step == loopStep(p.i, out)
    IN  CASE step.do = "return" -> settle(q, Value(step.val), now)
          [] step.do = "throw" -> settle(q, Throw(step.val), now)
          [] step.do = "next" ->
               IF p.i = Len(services)
               THEN settle(q, Value(JSNull), now)
               ELSE IF services[p.i + 1] = "Fallback"
               THEN conclude([invoke(q, p.i + 1) EXCEPT !.canvas = canvas],
                             generateWithFallbackService(canvas), canvas, now)
               ELSE invoke(q, p.i + 1)

\* generateImage up to its first await: validation, then the enhancement POST.
startCall(caller, apiKey, prompt, now) ==
    LET p == [IdlePipe EXCEPT !.caller = caller, !.apiKey = apiKey, !.prompt = prompt]
        v == validateInputs(apiKey, prompt)
    IN  IF v.kind = "throw"
        THEN settle(p, v, now)
        ELSE [p EXCEPT !.pc = "gemini fetch",
                       !.net = <<Request("generativelanguage.googleapis.com", apiKey, v.val)>>]

\* The enhancement call has answered: generateImageFromPrompt(enhancedPrompt
\* || prompt.trim()) starts with the first service.
afterEnhance(p, resp, now) ==
    LET e == enhancePromptWithGemini(resp)
    IN  IF e.kind = "throw"
        THEN settle(p, e, now)
        ELSE invoke([p EXCEPT !.enhanced = e.val,
                              !.text = OrElse(e.val, Trim(p.prompt))], 1)

\* A waiting strategy has produced `out`: it waits on (Await) or concludes.
resume(p, out, canvas, now) ==
    IF out.kind = "await"
    THEN [p EXCEPT !.pc = out.val,
                   !.net = Append(@, Request(out.val, NullKey, p.text))]
    ELSE conclude(p, out, canvas, now)

\* ------------------------------------------------------- the controller
\* `history.length > 50` / `history.splice(50)`
HistoryLimit == 50

EmptyStr == Str("user", 0, 0)

\* The first n elements of a sequence (all of it when it is shorter).
Take(seq, n) == SubSeq(seq, 1, IF Len(seq) < n THEN Len(seq) ELSE n)

\* Length of ', ' + styleModifiers[style]; an unknown style takes 'realistic'.
styleModifierLength(style) ==
    CASE style = "realistic" -> 51
      [] style = "artistic" -> 55
      [] style = "cartoon" -> 40
      [] style = "photography" -> 57
      [] style = "painting" -> 50
      [] style = "digital-art" -> 50
      [] OTHER -> 51

\* Length of ', ' + qualityModifiers[quality]; an unknown quality takes 'standard'.
qualityModifierLength(quality) ==
    CASE quality = "standard" -> 14
      [] quality = "high" -> 31
      [] quality = "ultra" -> 67
      [] OTHER -> 14

\* Length of ', no watermark, no logo, no text, clean image, professional'
watermarkModifierLength(removeWatermark) == IF removeWatermark THEN 59 ELSE 0

\* ImageGeneratorApp.enhancePromptWithOptions: the modifiers are appended.
enhancePromptWithOptions(prompt, style, quality, removeWatermark) ==
    [prompt EXCEPT !.core = @ + styleModifierLength(style)
                              + qualityModifierLength(quality)
                              + watermarkModifierLength(removeWatermark)]

\* A toast: its type and what it says.
Toast(type, message) == [type |-> type, message |-> message]

\* ImageGeneratorApp.updateGenerateButton: the value given to generateBtn.disabled
updateGenerateButton(a) ==
    \/ KeyLength(TrimKey(a.apiKeyInput)) = 0
    \/ Length(Trim(a.promptInput)) = 0
    \/ a.isGenerating

\* setGeneratingState that never clears the flag.
setGeneratingStateOn(a, isGenerating) ==
    [a EXCEPT !.isGenerating = TRUE, !.generateBtnDisabled = TRUE]

\* ImageGeneratorApp.setGeneratingState
setGeneratingState(a, isGenerating) ==
    [a EXCEPT !.isGenerating = isGenerating, !.generateBtnDisabled = isGenerating]

\* Utils.generateId: a random identifier, modelled as fresh for each call.
generateId(seed) == seed

\* saveToHistory keeping the oldest entries (push in place of unshift).
saveToHistoryPush(st, result, id) ==
    [st EXCEPT !.history =
        Take(Append(@, [id |-> generateId(id), prompt |-> result.prompt,
                        imageUrl |-> result.imageUrl, timestamp |-> result.timestamp]),
             HistoryLimit)]

\* ImageGeneratorApp.saveToHistory: unshift the entry, keep the first 50, save.
saveToHistory(st, result, id) ==
    [st EXCEPT !.history =
        Take(<<[id |-> generateId(id), prompt |-> result.prompt,
                imageUrl |-> result.imageUrl, timestamp |-> result.timestamp]>> \o @,
             HistoryLimit)]

\* ImageGeneratorApp.generateImage before its await: setGeneratingState(true),
\* showResultSection, showLoadingSpinner.
generateBegin(a) ==
    [setGeneratingState(a, TRUE) EXCEPT !.resultSection = "block",
                                        !.loadingSpinner = "block",
                                        !.imageResult = "none"]

\* generateImage after its await with hideResultSection left out of the catch block.
generateEndKeepSection(a, st, q, id) ==
    IF q.pc = "done" /\ q.result.success
    THEN [app |-> [setGeneratingState(a, FALSE) EXCEPT
                      !.currentImageUrl = q.result.imageUrl,
                      !.imageResult = "block",
                      !.loadingSpinner = "none"],
          storage |-> saveToHistory(st, q.result, id),
          toasts |-> <<Toast("success", "image generated")>>]
    ELSE [app |-> [setGeneratingState(a, FALSE) EXCEPT !.loadingSpinner = "none"],
          storage |-> st,
          toasts |-> <<Toast("error", IF q.pc = "done" THEN q.result.error
                                       ELSE q.result.rejected)>>]

\* generateImage after its await dropping the result of a generation the
\* form was reset under (the result section no longer shown).
generateEndDiscardStale(a, st, q, id) ==
    IF a.resultSection = "none"
    THEN [app |-> [setGeneratingState(a, FALSE) EXCEPT !.loadingSpinner = "none"],
          storage |-> st,
          toasts |-> <<>>]
    ELSE IF q.pc = "done" /\ q.result.success
    THEN [app |-> [setGeneratingState(a, FALSE) EXCEPT
                      !.currentImageUrl = q.result.imageUrl,
                      !.imageResult = "block",
                      !.loadingSpinner = "none"],
          storage |-> saveToHistory(st, q.result, id),
          toasts |-> <<Toast("success", "image generated")>>]
    ELSE [app |-> [setGeneratingState(a, FALSE) EXCEPT
                      !.resultSection = "none",
                      !.loadingSpinner = "none"],
          storage |-> st,
          toasts |-> <<Toast("error", IF q.pc = "done" THEN q.result.error
                                       ELSE q.result.rejected)>>]

\* generateImage after its await with saveToHistory left out.
generateEndNoSave(a, st, q, id) ==
    IF q.pc = "done" /\ q.result.success
    THEN [app |-> [setGeneratingState(a, FALSE) EXCEPT
                      !.currentImageUrl = q.result.imageUrl,
                      !.imageResult = "block",
                      !.loadingSpinner = "none"],
          storage |-> st,
          toasts |-> <<Toast("success", "image generated")>>]
    ELSE [app |-> [setGeneratingState(a, FALSE) EXCEPT
                      !.resultSection = "none",
                      !.loadingSpinner = "none"],
          storage |-> st,
          toasts |-> <<Toast("error", IF q.pc = "done" THEN q.result.error
                                       ELSE q.result.rejected)>>]

\* ImageGeneratorApp.generateImage after its await, given the settled call q:
\* the success branch (displayGeneratedImage, toast, saveToHistory) or the
\* catch block (toast, hideResultSection), then the finally block.
generateEnd(a, st, q, id) ==
    IF q.pc = "done" /\ q.result.success
    THEN [app |-> [setGeneratingState(a, FALSE) EXCEPT
                      !.currentImageUrl = q.result.imageUrl,
                      !.imageResult = "block",
                      !.loadingSpinner = "none"],
          storage |-> saveToHistory(st, q.result, id),
          toasts |-> <<Toast("success", "image generated")>>]
    ELSE [app |-> [setGeneratingState(a, FALSE) EXCEPT
                      !.resultSection = "none",
                      !.loadingSpinner = "none"],
          storage |-> st,
          toasts |-> <<Toast("error", IF q.pc = "done" THEN q.result.error
                                       ELSE q.result.rejected)>>]

\* The guard of handleFormSubmit, removed.
submitBlockedNever(a) == FALSE

\* handleFormSubmit: `if (this.isGenerating) return;`
submitBlocked(a) == a.isGenerating

\* handleFormSubmit without its test of the prompt.
formErrorKeyOnly(apiKey, prompt) ==
    IF KeyLength(apiKey) = 0 THEN "enter api key" ELSE "none"

\* ImageGeneratorApp.handleFormSubmit: the message of the error toast its
\* validation of the trimmed fields shows, "none" when both are filled.
formError(apiKey, prompt) ==
    IF KeyLength(apiKey) = 0 THEN "enter api key"
    ELSE IF Length(prompt) = 0 THEN "enter image description"
    ELSE "none"

\* savePrompt without its test for an empty prompt.
savePromptAlways(a, st) == [st EXCEPT !.lastPrompt = Trim(a.promptInput)]

\* savePrompt storing the field as typed, without trim().
savePromptUntrimmed(a, st) ==
    IF Length(Trim(a.promptInput)) > 0
    THEN [st EXCEPT !.lastPrompt = a.promptInput]
    ELSE st

\* ImageGeneratorApp.savePrompt
savePrompt(a, st) ==
    IF Length(Trim(a.promptInput)) > 0
    THEN [st EXCEPT !.lastPrompt = Trim(a.promptInput)]
    ELSE st

\* ImageGeneratorApp.resetForm
resetForm(a) ==
    [a EXCEPT !.promptInput = EmptyStr, !.resultSection = "none",
              !.currentImageUrl = JSNull]

\* ------------------------------------------------- language and theme
\* A key of localStorage that holds nothing: StorageHelper.load gives null.
NoPref == "none"

\* The keys of LanguageHelper.translations; the two themes.
Languages == {"ar", "en"}
Themes == {"light", "dark"}

\* What the browser reports: navigator.language reduced to 'ar' or 'en',
\* and the system colour scheme.
Browser(language, theme) == [language |-> language, theme |-> theme]
Browsers == { Browser(l, t) : l \in Languages, t \in Themes }
DefaultBrowser == Browser("ar", "light")

\* LanguageHelper.translations[lang].direction
direction(lang) == IF lang = "ar" THEN "rtl" ELSE "ltr"

\* A pair of the page and the storage, as the helpers change both.
Both(a, st) == [app |-> a, storage |-> st]

\* applyTheme without its save.
applyThemeNoSave(a, st, theme) ==
    Both([a EXCEPT !.currentTheme = theme, !.dataTheme = theme], st)

\* ThemeHelper.applyTheme
applyTheme(a, st, theme) ==
    Both([a EXCEPT !.currentTheme = theme, !.dataTheme = theme],
         [st EXCEPT !.theme = theme])

\* applyLanguage that sets the direction of Arabic for every language.
applyLanguageRtl(a, st, lang) ==
    Both([a EXCEPT !.currentLanguage = lang, !.lang = lang, !.dir = "rtl"],
         [st EXCEPT !.language = lang])

\* LanguageHelper.applyLanguage
applyLanguage(a, st, lang) ==
    Both([a EXCEPT !.currentLanguage = lang, !.lang = lang, !.dir = direction(lang)],
         [st EXCEPT !.language = lang])

\* ThemeHelper.init: the saved theme, else the system's (the listener it
\* adds is the action SystemThemeChange).
themeInit(a, st, browser) ==
    applyTheme(a, st, IF st.theme # NoPref THEN st.theme ELSE browser.theme)

\* LanguageHelper.init: the saved language, else the browser's.
languageInit(a, st, browser) ==
    applyLanguage(a, st, IF st.language # NoPref THEN st.language ELSE browser.language)

\* ThemeHelper.toggle
themeToggle(a, st) ==
    applyTheme(a, st, IF a.currentTheme = "light" THEN "dark" ELSE "light")

\* LanguageHelper.toggle
languageToggle(a, st) ==
    applyLanguage(a, st, IF a.currentLanguage = "ar" THEN "en" ELSE "ar")

\* The listener of the system colour scheme added by ThemeHelper.init.
systemThemeChange(a, st, theme) ==
    IF st.theme = NoPref THEN applyTheme(a, st, theme) ELSE Both(a, st)

\* initializeHelpers: ThemeHelper.init, then LanguageHelper.init.
initializeHelpers(a, st, browser) ==
    LET t == themeInit(a, st, browser)
    IN  languageInit(t.app, t.storage, browser)

\* StorageHelper.clearAll: every key of the application is removed.
clearAll(st) ==
    [apiKey |-> NullKey, lastPrompt |-> JSNull, history |-> <<>>,
     theme |-> NoPref, language |-> NoPref]

\* A browser profile the application has never written to.
FreshStorage ==
    [apiKey |-> NullKey, lastPrompt |-> JSNull, history |-> <<>>,
     theme |-> NoPref, language |-> NoPref]

\* setup() in a given browser: initializeHelpers applies and saves theme and
\* language, loadSavedData fills the two fields from storage, updateUI sets
\* the button.  The result section, the image and the spinner start
\* hidden; the helpers' static fields start as declared, the attributes of
\* the document as the helpers find them.  Gives the page and the storage.
setupIn(st, browser) ==
    LET a == [isGenerating |-> FALSE,
              currentImageUrl |-> JSNull,
              apiKeyInput |-> IF st.apiKey.kind = "string" THEN st.apiKey ELSE EmptyKey,
              promptInput |-> IF Truthy(st.lastPrompt) THEN st.lastPrompt ELSE EmptyStr,
              resultSection |-> "none",
              imageResult |-> "none",
              loadingSpinner |-> "none",
              generateBtnDisabled |-> FALSE,
              promptTimer |-> FALSE,
              currentLanguage |-> "ar",
              lang |-> NoPref,
              dir |-> NoPref,
              currentTheme |-> "light",
              dataTheme |-> NoPref]
        h == initializeHelpers(a, st, browser)
    IN  Both([h.app EXCEPT !.generateBtnDisabled = updateGenerateButton(a)], h.storage)

\* The page after setup() in a browser set to Arabic and a light scheme,
\* and what setup() leaves in the storage.
setup(st) == setupIn(st, DefaultBrowser).app
savedBySetup(st) == setupIn(st, DefaultBrowser).storage

\* ------------------------------------------------------- Utils.debounce
\* The `wait` of a debounced function, in ticks of the timer.
Wait == 2

\* No timer is pending: `timeout` is undefined or names a timer that ran.
NoTimer == [due |-> 0, args |-> "none"]

\* setTimeout(later, wait) made at `now` by a call with `args`.
Timer(now, args) == [due |-> now + Wait, args |-> args]

\* Utils.debounce(func, wait): the closure with its `timeout`, the time, and
\* the calls of the returned function and of func made so far.
IdleDebounce == [now |-> 0, timeout |-> NoTimer, calls |-> <<>>, runs |-> <<>>]

\* executedFunction that leaves a pending timer alone instead of clearing it.
executedFunctionKeepTimer(d, args) ==
    [d EXCEPT !.timeout = IF @ = NoTimer THEN Timer(d.now, args) ELSE @,
              !.calls = Append(@, [at |-> d.now, args |-> args])]

\* executedFunction(...args): clearTimeout(timeout), then
\* timeout = setTimeout(later, wait).
executedFunction(d, args) ==
    [d EXCEPT !.timeout = Timer(d.now, args),
              !.calls = Append(@, [at |-> d.now, args |-> args])]

\* later(): clearTimeout(timeout); func(...args), with the args of the call
\* that set the timer.
later(d) ==
    [d EXCEPT !.timeout = NoTimer,
              !.runs = Append(@, [at |-> d.now, args |-> d.timeout.args])]

\* ------------------------------------------------------------ input sets
ValidKey == Key(0, AIza, KeyBodyLength, TRUE)

\* Arguments a caller may pass as apiKey: no string at all, the empty
\* string, and keys right or wrong in prefix, length or alphabet, each with
\* and without surrounding whitespace.
KeyArgs ==
    {NullKey, OtherKey, EmptyKey}
    \cup { Key(pad, AIza, len, TRUE) : pad \in 0..MaxPad,
                                       len \in (KeyBodyLength - 1)..(KeyBodyLength + 1) }
    \cup { Key(pad, <<"A", "I", "z", "b">>, KeyBodyLength, TRUE) : pad \in 0..MaxPad }
    \cup { Key(pad, AIza, KeyBodyLength, FALSE) : pad \in 0..MaxPad }

\* Arguments a caller may pass as prompt: no string, or a string that is
\* empty, blank, short, or around the length limit, with 0..MaxPad
\* whitespace characters around it.
PromptArgs ==
    {JSNull, JSOther}
    \cup { Str("user", pad, core) :
             pad \in 0..MaxPad,
             core \in {0, 1} \cup ((MaxPromptLength - Margin)..(MaxPromptLength + Margin)) }

\* What the user may leave in the API key field.
KeyInputs == {EmptyKey, ValidKey, Key(0, AIza, KeyBodyLength - 1, TRUE)}

\* What the user may leave in the prompt field.
PromptInputs == {EmptyStr, Str("user", MaxPad, 0), Str("user", 0, 1)}

\* The texts of the .example-item elements.
ExampleTexts == {Str("user", 0, 1)}

\* The options of the style and quality selects.
Styles == {"realistic"}
Qualities == {"standard"}
\* The states of the watermark-removal checkbox.
Watermarks == {FALSE}

\* ---------------------------------------------------------------- state
VARIABLES
    pipes,      \* the calls of window.GeminiAPI.generateImage, by slot
    clock,      \* calls started so far; the time written into results
    app,        \* the ImageGeneratorApp instance and the DOM it drives
    storage,    \* localStorage, by StorageHelper key
    toasts,     \* the toasts shown by the last step
    event,      \* the handler the last step ran, and the result it was given
    debounced   \* a function returned by Utils.debounce, and the time

vars == <<pipes, clock, app, storage, toasts, event, debounced>>

\* The last step: the handler's name and the GenerationResult handed to the
\* controller in it, if any.
Event(name) == [name |-> name, result |-> NoResult]
Settled(name, q) ==
    [name |-> name,
     result |-> IF q.pc = "done" THEN q.result ELSE [rejected |-> q.result.rejected]]

\* Source names of the controller's fields.
isGenerating == app.isGenerating
currentImageUrl == app.currentImageUrl

Slots == 1..MaxPipes

\* The pipelines that are running.
Running == { n \in Slots : InFlight(pipes[n]) }

\* ------------------------------------------------------ the client's steps
\* Pipeline n moves to q.  A settled call made by the controller resumes
\* generateImage of the controller in the same turn of the event loop, and
\* the call is over; a direct caller keeps the settled call to read.
Advance(n, q) ==
    /\ clock' = clock
    /\ IF ~InFlight(q) /\ q.caller = "app"
       THEN LET r == generateEnd(app, storage, q, clock)
            IN  /\ pipes' = [pipes EXCEPT ![n] = IdlePipe]
                /\ app' = r.app
                /\ storage' = r.storage
                /\ toasts' = r.toasts
                /\ event' = Settled("settled", q)
       ELSE /\ pipes' = [pipes EXCEPT ![n] = q]
            /\ UNCHANGED <<app, storage>>
            /\ toasts' = <<>>
            /\ event' = Event("network")
    /\ UNCHANGED debounced

\* The enhancement POST answers.
GeminiAnswers(n) ==
    /\ pipes[n].pc = "gemini fetch"
    /\ \E resp \in GeminiResponses :
         Advance(n, afterEnhance(pipes[n], resp, clock))

\* The DeepAI POST answers.
DeepAIAnswers(n) ==
    /\ pipes[n].pc = "deepai fetch"
    /\ \E resp \in DeepAIResponses, canvas \in CanvasStates :
         Advance(n, resume(pipes[n], generateWithDeepAI(resp), canvas, clock))

\* The Image given DeepAI's output_url loads or fails.
DeepAIImage(n) ==
    /\ pipes[n].pc = "deepai image"
    /\ \E ev \in ImageEvents, canvas \in CanvasStates :
         Advance(n, resume(pipes[n], generateWithDeepAIImage(ev), canvas, clock))

\* The Image given the Pollinations URL loads or fails.
PollinationsImage(n) ==
    /\ pipes[n].pc = "pollinations image"
    /\ \E ev \in ImageEvents, canvas \in CanvasStates :
         Advance(n, resume(pipes[n], generateWithPollinations(ev), canvas, clock))

\* The Stability POST answers.
StabilityAnswers(n) ==
    /\ pipes[n].pc = "stability fetch"
    /\ \E resp \in StabilityResponses, canvas \in CanvasStates :
         Advance(n, resume(pipes[n], generateWithStableDiffusionAPI(resp), canvas, clock))

\* The Image given the Unsplash URL loads or fails.
SimpleImage(n) ==
    /\ pipes[n].pc = "simple image"
    /\ \E ev \in ImageEvents, canvas \in CanvasStates :
         Advance(n, resume(pipes[n], generateWithSimpleAPI(ev), canvas, clock))

\* A caller invokes generateImage(apiKey, prompt) once the previous call settled.
Call(n) ==
    /\ ~InFlight(pipes[n])
    /\ clock < MaxCalls
    /\ \E apiKey \in KeyArgs, prompt \in PromptArgs :
         /\ pipes' = [pipes EXCEPT ![n] = startCall("caller", apiKey, prompt, clock + 1)]
         /\ clock' = clock + 1
    /\ toasts' = <<>>
    /\ event' = Event("call")
    /\ UNCHANGED <<app, storage>>
    /\ UNCHANGED debounced

\* ------------------------------------------- the client called directly
Init ==
    /\ pipes = [n \in Slots |-> IdlePipe]
    /\ clock = 0
    /\ storage = savedBySetup(FreshStorage)
    /\ app = setup(FreshStorage)
    /\ toasts = <<>>
    /\ event = Event("setup")
    /\ debounced = IdleDebounce

Next ==
    \/ Call(1)
    \/ GeminiAnswers(1)
    \/ DeepAIAnswers(1)
    \/ DeepAIImage(1)
    \/ PollinationsImage(1)
    \/ StabilityAnswers(1)
    \/ SimpleImage(1)

\* generateImage called with any arguments, one call after the other (the
\* client keeps nothing from one call to the next).
Spec == Init /\ [][Next]_vars

\* ------------------------------------------------------- the application
\* What an earlier visit may have left in localStorage: the key and the
\* prompt are stored trimmed and non-empty.
ReturningStorage ==
    [apiKey |-> ValidKey, lastPrompt |-> Str("user", 0, 1), history |-> <<>>,
     theme |-> "light", language |-> "ar"]

\* The profiles the page is opened with: a first visit, a later one.
SavedStorages == {FreshStorage, ReturningStorage}

\* The slot a new call takes: the first one with no call running.
FreeSlot == CHOOSE n \in Slots : ~InFlight(pipes[n]) /\ \A m \in 1..(n - 1) : InFlight(pipes[m])

\* The form is submitted: handleFormSubmit, and generateImage of the
\* controller up to its await (further, when the client returns at once).
SubmitWith(limit, styles, qualities, watermarks) ==
    /\ UNCHANGED debounced
    /\ IF submitBlocked(app)
       THEN /\ toasts' = <<>>
            /\ event' = Event("submit")
            /\ UNCHANGED <<pipes, clock, app, storage>>
       ELSE LET apiKey == TrimKey(app.apiKeyInput)
                prompt == Trim(app.promptInput)
            IN  IF formError(apiKey, prompt) # "none"
                THEN /\ toasts' = <<Toast("error", formError(apiKey, prompt))>>
                     /\ event' = Event("submit")
                     /\ UNCHANGED <<pipes, clock, app, storage>>
                ELSE /\ clock < limit
                     /\ \E n \in Slots : ~InFlight(pipes[n])
                     /\ \E style \in styles, quality \in qualities, removeWatermark \in watermarks :
                          LET q == startCall("app", apiKey,
                                     enhancePromptWithOptions(prompt, style, quality, removeWatermark),
                                     clock + 1)
                              r == generateEnd(generateBegin(app), storage, q, clock + 1)
                          IN  /\ clock' = clock + 1
                              /\ IF InFlight(q)
                                 THEN /\ pipes' = [pipes EXCEPT ![FreeSlot] = q]
                                      /\ app' = generateBegin(app)
                                      /\ toasts' = <<>>
                                      /\ event' = Event("submit")
                                      /\ UNCHANGED storage
                                 ELSE /\ app' = r.app
                                      /\ storage' = r.storage
                                      /\ toasts' = r.toasts
                                      /\ event' = Settled("submit", q)
                                      /\ UNCHANGED pipes

SubmitUpTo(limit) == SubmitWith(limit, Styles, Qualities, Watermarks)

Submit == SubmitUpTo(MaxCalls)

\* The user edits the prompt: updateCharCounter, and the debounced
\* savePrompt is scheduled anew.
InputPromptFrom(inputs) ==
    /\ \E v \in inputs :
         /\ v # app.promptInput
         /\ app' = [app EXCEPT !.promptInput = v, !.promptTimer = TRUE]
    /\ toasts' = <<>>
    /\ event' = Event("prompt input")
    /\ UNCHANGED <<pipes, clock, storage>>
    /\ UNCHANGED debounced

InputPrompt == InputPromptFrom(PromptInputs)

\* The debounce timer of the prompt field fires: savePrompt.
SavePromptTimer ==
    /\ app.promptTimer
    /\ app' = [app EXCEPT !.promptTimer = FALSE]
    /\ storage' = savePrompt(app, storage)
    /\ toasts' = <<>>
    /\ event' = Event("save prompt")
    /\ UNCHANGED <<pipes, clock>>
    /\ UNCHANGED debounced

\* The user edits the API key.  (The handlers that only warn about the
\* key's format and save the key are outside the controller's generation
\* state and are left out.)
InputApiKey ==
    /\ \E v \in KeyInputs :
         /\ v # app.apiKeyInput
         /\ app' = [app EXCEPT !.apiKeyInput = v]
    /\ toasts' = <<>>
    /\ event' = Event("key input")
    /\ UNCHANGED <<pipes, clock, storage>>
    /\ UNCHANGED debounced

\* An example is clicked: its text goes into the prompt field and is saved.
ExampleClick ==
    /\ \E text \in ExampleTexts :
         /\ app' = [app EXCEPT !.promptInput = text]
         /\ storage' = savePrompt([app EXCEPT !.promptInput = text], storage)
    /\ toasts' = <<Toast("success", "example copied")>>
    /\ event' = Event("example")
    /\ UNCHANGED <<pipes, clock>>
    /\ UNCHANGED debounced

\* The new-image button is clicked: resetForm.
ResetForm ==
    /\ app' = resetForm(app)
    /\ storage' = [storage EXCEPT !.lastPrompt = JSNull]
    /\ toasts' = <<>>
    /\ event' = Event("reset")
    /\ UNCHANGED <<pipes, clock>>
    /\ UNCHANGED debounced

AppInit ==
    /\ pipes = [n \in Slots |-> IdlePipe]
    /\ clock = 0
    /\ \E st \in SavedStorages :
         /\ storage = savedBySetup(st)
         /\ app = setup(st)
    /\ toasts = <<>>
    /\ event = Event("setup")
    /\ debounced = IdleDebounce

AppNext ==
    \/ Submit
    \/ InputPrompt
    \/ SavePromptTimer
    \/ InputApiKey
    \/ ExampleClick
    \/ ResetForm
    \/ \E n \in Slots :
         \/ GeminiAnswers(n)
         \/ DeepAIAnswers(n)
         \/ DeepAIImage(n)
         \/ PollinationsImage(n)
         \/ StabilityAnswers(n)
         \/ SimpleImage(n)

\* The page: the user's events and the network's, in any order.
AppSpec == AppInit /\ [][AppNext]_vars

\* The page opened with a saved key and prompt.
GuardInit ==
    /\ AppInit
    /\ storage = ReturningStorage

GuardNext ==
    \/ Submit
    \/ ResetForm
    \/ ExampleClick
    \/ \E n \in Slots :
         \/ GeminiAnswers(n)
         \/ DeepAIAnswers(n)
         \/ DeepAIImage(n)
         \/ PollinationsImage(n)
         \/ StabilityAnswers(n)
         \/ SimpleImage(n)

\* Submissions, resets (and the example click that refills the prompt a
\* reset cleared) and backend completions, in any order.
GuardSpec == GuardInit /\ [][GuardNext]_vars

\* A request or an image load of some pipeline completes or errors.
Network ==
    \E n \in Slots :
        \/ GeminiAnswers(n)
        \/ DeepAIAnswers(n)
        \/ DeepAIImage(n)
        \/ PollinationsImage(n)
        \/ StabilityAnswers(n)
        \/ SimpleImage(n)

LiveNext ==
    \/ Submit
    \/ ResetForm
    \/ Network

\* Submissions and resets where every request and every image load sent is
\* answered in the end: fetch and Image settle their promises, and the
\* program sets no timeout of its own.
LiveSpec == GuardInit /\ [][LiveNext]_vars /\ WF_vars(Network)

\* The same with edits of the prompt field and its debounced save.
ResetNext ==
    \/ GuardNext
    \/ InputPrompt
    \/ SavePromptTimer

ResetSpec == GuardInit /\ [][ResetNext]_vars

\* The form: both fields edited and submitted while the backends answer.
FormNext ==
    \/ Submit
    \/ InputApiKey
    \/ InputPrompt
    \/ \E n \in Slots :
         \/ GeminiAnswers(n)
         \/ DeepAIAnswers(n)
         \/ DeepAIImage(n)
         \/ PollinationsImage(n)
         \/ StabilityAnswers(n)
         \/ SimpleImage(n)

FormSpec == AppInit /\ [][FormNext]_vars

\* ------------------------------------------------- language and theme
\* The theme button is clicked: ThemeHelper.toggle, then an info toast.
ThemeToggle ==
    /\ app' = themeToggle(app, storage).app
    /\ storage' = themeToggle(app, storage).storage
    /\ toasts' = <<Toast("info", "theme changed")>>
    /\ event' = Event("theme toggle")
    /\ UNCHANGED <<pipes, clock>>
    /\ UNCHANGED debounced

\* The language button is clicked: LanguageHelper.toggle, then an info toast.
LanguageToggle ==
    /\ app' = languageToggle(app, storage).app
    /\ storage' = languageToggle(app, storage).storage
    /\ toasts' = <<Toast("info", "language changed")>>
    /\ event' = Event("language toggle")
    /\ UNCHANGED <<pipes, clock>>
    /\ UNCHANGED debounced

\* The system colour scheme changes to `theme`.
SystemThemeChange ==
    /\ \E theme \in Themes :
         /\ app' = systemThemeChange(app, storage, theme).app
         /\ storage' = systemThemeChange(app, storage, theme).storage
    /\ toasts' = <<>>
    /\ event' = Event("system theme")
    /\ UNCHANGED <<pipes, clock>>
    /\ UNCHANGED debounced

\* What earlier visits may have left: nothing, or a key and a prompt, and
\* with them or not a theme and a language.
PrefStorages ==
    { [st EXCEPT !.theme = t, !.language = l] :
        st \in SavedStorages, t \in Themes \cup {NoPref}, l \in Languages \cup {NoPref} }

\* The page opened in any browser with any of these profiles.
PrefsInit ==
    /\ pipes = [n \in Slots |-> IdlePipe]
    /\ clock = 0
    /\ \E st \in PrefStorages, browser \in Browsers :
         /\ storage = setupIn(st, browser).storage
         /\ app = setupIn(st, browser).app
    /\ toasts = <<>>
    /\ event = Event("setup")
    /\ debounced = IdleDebounce

\* The toggles and the system's changes among edits of the form and resets.
PrefsNext ==
    \/ ThemeToggle
    \/ LanguageToggle
    \/ SystemThemeChange
    \/ InputPrompt
    \/ SavePromptTimer
    \/ InputApiKey
    \/ ExampleClick
    \/ ResetForm

PrefsSpec == PrefsInit /\ [][PrefsNext]_vars

\* ------------------------------------------------------------ the options
\* The values of the style and quality selects.
AllStyles == {"realistic", "artistic", "cartoon", "photography", "painting", "digital-art"}
AllQualities == {"standard", "high", "ultra"}

\* The fewest characters enhancePromptWithOptions appends.
ShortestModifiers == styleModifierLength("cartoon") + qualityModifierLength("standard")

\* Lengths of the raw prompt: one character, the limit, and the lengths
\* around the longest prompt the shortest modifiers still fit after.
RawLengths ==
    {1, MaxPromptLength}
        \cup { MaxPromptLength - ShortestModifiers + d : d \in (0 - Margin)..Margin }

\* The page opened with a saved key and one of the raw prompts.
OptionsInit ==
    /\ pipes = [n \in Slots |-> IdlePipe]
    /\ clock = 0
    /\ \E n \in RawLengths :
         storage = [ReturningStorage EXCEPT !.lastPrompt = Str("user", 0, n)]
    /\ app = setup(storage)
    /\ toasts = <<>>
    /\ event = Event("setup")
    /\ debounced = IdleDebounce

\* The first submission of the visit, with any style, quality and
\* watermark option, and the answers of the backends to it.
OptionsNext ==
    \/ clock = 0 /\ SubmitWith(MaxCalls, AllStyles, AllQualities, BOOLEAN)
    \/ Network

OptionsSpec == OptionsInit /\ [][OptionsNext]_vars

\* ------------------------------------------------------------ the history
\* StorageHelper.clearAll is called.
ClearAll ==
    /\ storage' = clearAll(storage)
    /\ toasts' = <<>>
    /\ event' = Event("clear")
    /\ UNCHANGED <<pipes, clock, app>>
    /\ UNCHANGED debounced

HistoryInit ==
    /\ pipes = [n \in Slots |-> IdlePipe]
    /\ clock = 0
    /\ storage = ReturningStorage
    /\ app = setup(storage)
    /\ toasts = <<>>
    /\ event = Event("setup")
    /\ debounced = IdleDebounce

\* The form is submitted again and again while the first backend is up:
\* the enhancement gives nothing, DeepAI answers with a URL, the image loads.
HistoryNext ==
    \/ SubmitUpTo(MaxInserts)
    \/ GeminiAnswers(1) /\ pipes'[1].enhanced = JSNull
    \/ DeepAIAnswers(1) /\ pipes'[1].pc = "deepai image"
    \/ DeepAIImage(1) /\ event'.name = "settled"
    \/ ClearAll

\* Successful generations in a row, the storage cleared at any moment.
HistorySpec == HistoryInit /\ [][HistoryNext]_vars

\* ------------------------------------------------------------ the storage
\* Prompts typed with surrounding whitespace, besides the others.
PaddedPrompts == PromptInputs \cup {Str("user", MaxPad, 2)}

\* Everything that writes or removes the saved prompt and the saved theme:
\* edits of the prompt and the debounced save, example clicks, resets, the
\* theme toggle, the system's color-scheme changes, and clearAll.
StoreNext ==
    \/ InputPromptFrom(PaddedPrompts)
    \/ SavePromptTimer
    \/ ExampleClick
    \/ ResetForm
    \/ ThemeToggle
    \/ SystemThemeChange
    \/ ClearAll

StoreSpec == PrefsInit /\ [][StoreNext]_vars

\* ----------------------------------------------------------- the debounce
\* The time covered, the calls of the debounced function made in it, and
\* the arguments they are made with.
MaxTime == 6
MaxEvents == 3
DebounceArgs == {"a", "b"}

\* No timer is due.  A timer runs when its delay has elapsed: before the
\* time moves on, and before the events of that instant are handled.
NoneDue == debounced.timeout = NoTimer \/ debounced.timeout.due > debounced.now

\* The function returned by Utils.debounce is called.
DebouncedCall ==
    /\ NoneDue
    /\ Len(debounced.calls) < MaxEvents
    /\ \E args \in DebounceArgs : debounced' = executedFunction(debounced, args)
    /\ toasts' = <<>>
    /\ event' = Event("debounced call")
    /\ UNCHANGED <<pipes, clock, app, storage>>

\* The timer set by the last call runs `later`.
TimerFires ==
    /\ ~NoneDue
    /\ debounced' = later(debounced)
    /\ toasts' = <<>>
    /\ event' = Event("later")
    /\ UNCHANGED <<pipes, clock, app, storage>>

\* A tick of the timer passes.
Tick ==
    /\ NoneDue
    /\ debounced.now < MaxTime
    /\ debounced' = [debounced EXCEPT !.now = @ + 1]
    /\ toasts' = <<>>
    /\ event' = Event("tick")
    /\ UNCHANGED <<pipes, clock, app, storage>>

DebounceNext ==
    \/ DebouncedCall
    \/ TimerFires
    \/ Tick

\* A debounced function called at any moments with any arguments.
DebounceSpec == Init /\ [][DebounceNext]_vars

\* ================================================================ claims
\* The calls that have been made, and those that have returned.
Called == { n \in Slots : pipes[n].pc # "idle" }
Returned == { n \in Slots : pipes[n].pc = "done" }

\* The key is AIza followed by exactly 35 characters of [0-9A-Za-z-_].
MatchesKeyFormat(apiKey) == apiKey.kind = "string" /\ apiKeyPattern(apiKey)

\* The services whose outcome is in the log of pipeline n did not produce an image.
Failed(entry) == entry.out \in {"threw", "empty"}

\* C1: generateImage never throws or rejects: whatever the arguments and
\* whatever the enhancement call and the backends do, a call that has ended
\* has resolved to an object with a boolean success flag.
C1_NeverThrows ==
    \A n \in Slots :
        /\ pipes[n].pc # "rejected"
        /\ pipes[n].pc = "done" =>
              /\ "success" \in DOMAIN pipes[n].result
              /\ pipes[n].result.success \in BOOLEAN

\* C1 witness: a TypeError raised inside generateImage (a prompt that is no
\* string) has become a failed result.
C1_Witness ==
    \E n \in Returned :
        /\ pipes[n].prompt = JSOther
        /\ ~pipes[n].result.success
        /\ pipes[n].result.error = ERR_TYPE

\* C2 as stated: for a key of the required format and a prompt of length
\* 1..500, generateImage returns success=true with a non-empty image.
C2_AsStated ==
    \A n \in Returned :
        ( /\ MatchesKeyFormat(pipes[n].apiKey)
          /\ IsString(pipes[n].prompt)
          /\ Length(pipes[n].prompt) \in 1..MaxPromptLength )
        => /\ pipes[n].result.success
           /\ Truthy(pipes[n].result.imageUrl)

\* C2 amended: for a key of the required format and a prompt whose trimmed
\* length is in 1..500, generateImage returns success=true with a non-empty
\* image, whatever the three networked backends do, unless the canvas
\* fallback itself throws.
C2_FallbackGuarantee ==
    \A n \in Returned :
        ( /\ MatchesKeyFormat(pipes[n].apiKey)
          /\ IsString(pipes[n].prompt)
          /\ Length(Trim(pipes[n].prompt)) \in 1..MaxPromptLength
          /\ pipes[n].canvas # "unavailable" )
        => /\ pipes[n].result.success
           /\ Truthy(pipes[n].result.imageUrl)

\* C2 witness: DeepAI, Pollinations and Stable Diffusion with its URL
\* fallback have all failed and the canvas image is the result.
C2_Witness ==
    \E n \in Returned :
        /\ Len(pipes[n].tried) = Len(services)
        /\ \A k \in 1..3 : pipes[n].tried[k].out = "threw"
        /\ pipes[n].result.success
        /\ pipes[n].result.imageUrl = CanvasDataUrl

\* C3 as stated: a prompt longer than 500 characters, or empty or blank,
\* makes generateImage fail without any network call.
C3_AsStated ==
    \A n \in Called :
        ( /\ IsString(pipes[n].prompt)
          /\ \/ Length(pipes[n].prompt) > MaxPromptLength
             \/ Length(Trim(pipes[n].prompt)) = 0 )
        => /\ pipes[n].net = <<>>
           /\ pipes[n].pc = "done"
           /\ ~pipes[n].result.success

\* C3 amended: a prompt whose trimmed length is greater than 500, or that is
\* empty or blank, makes generateImage fail without any network call.
C3_RejectedWithoutNetwork ==
    \A n \in Called :
        ( /\ IsString(pipes[n].prompt)
          /\ \/ Length(Trim(pipes[n].prompt)) > MaxPromptLength
             \/ Length(Trim(pipes[n].prompt)) = 0 )
        => /\ pipes[n].net = <<>>
           /\ pipes[n].pc = "done"
           /\ ~pipes[n].result.success

\* C3 witness: a valid key and a prompt one character too long after
\* trimming are rejected for the length.
C3_Witness ==
    \E n \in Returned :
        /\ validateApiKey(pipes[n].apiKey)
        /\ Length(Trim(pipes[n].prompt)) = MaxPromptLength + 1
        /\ pipes[n].result.error = ERR_PROMPT_TOO_LONG
        /\ pipes[n].net = <<>>

\* C4: a key that is not AIza followed by exactly 35 characters of
\* [0-9A-Za-z-_] makes generateImage fail before any network call, and no
\* request is ever issued with such a key.
C4_InvalidKeyNoNetwork ==
    \A n \in Called :
        /\ ~MatchesKeyFormat(pipes[n].apiKey) =>
              /\ pipes[n].net = <<>>
              /\ pipes[n].pc = "done"
              /\ ~pipes[n].result.success
        /\ \A k \in 1..Len(pipes[n].net) :
              pipes[n].net[k].key # NullKey => MatchesKeyFormat(pipes[n].net[k].key)

\* The order the claim C5 gives.
C5_Order == <<"DeepAI", "Pollinations", "StableDiffusion", "Fallback">>

\* What each strategy can return.
C5_OutputsOf(svc) ==
    CASE svc = "DeepAI" -> {DeepAIUrl}
      [] svc = "Pollinations" -> {PollinationsUrl}
      [] svc = "StableDiffusion" -> {BlobUrl, UnsplashUrl}
      [] svc = "Fallback" -> {CanvasDataUrl, PlainDataUrl}

\* C5: the strategies are invoked in the order DeepAI, Pollinations, Stable
\* Diffusion, local fallback; strategy k is invoked only after strategies
\* 1..k-1 have failed; the image returned is the output of the first
\* strategy that succeeds, which is the last one invoked.
C5_Fallthrough ==
    \A n \in Slots :
        LET t == pipes[n].tried
        IN  /\ Len(t) <= Len(C5_Order)
            /\ \A k \in 1..Len(t) : t[k].svc = C5_Order[k]
            /\ \A k \in 1..(Len(t) - 1) : Failed(t[k])
            /\ (pipes[n].pc = "done" /\ pipes[n].result.success) =>
                  /\ Len(t) >= 1
                  /\ t[Len(t)].out = "returned"
                  /\ t[Len(t)].val \in C5_OutputsOf(t[Len(t)].svc)
                  /\ pipes[n].result.imageUrl = t[Len(t)].val

\* C5 witness: DeepAI was invoked and failed, Pollinations was invoked and
\* its URL is the result, and nothing else was invoked.
C5_Witness ==
    \E n \in Returned :
        /\ Len(pipes[n].tried) = 2
        /\ pipes[n].tried[1].out = "threw"
        /\ pipes[n].result.success
        /\ pipes[n].result.imageUrl = PollinationsUrl

\* C6: when the enhancement call gives no text (request error, non-2xx
\* status, malformed or empty answer), the call goes on to image resolution
\* with the original trimmed prompt, and the only failure it can then report
\* is that of image resolution.
C6_EnhancementNonFatal ==
    \A n \in Called :
        ( /\ pipes[n].net # <<>>
          /\ pipes[n].pc # "gemini fetch"
          /\ ~Truthy(pipes[n].enhanced) )
        => /\ pipes[n].pc # "rejected"
           /\ pipes[n].text = Trim(pipes[n].prompt)
           /\ Len(pipes[n].tried) >= 1
           /\ Len(pipes[n].net) >= 2
           /\ pipes[n].net[2].text = Trim(pipes[n].prompt)
           /\ (pipes[n].pc = "done" /\ ~pipes[n].result.success) =>
                 /\ pipes[n].result.error = ERR_ALL_UNAVAILABLE
                 /\ Len(pipes[n].tried) = Len(services)

\* C6 witness: the enhancement gave nothing and the call succeeded with an
\* image made from the original prompt.
C6_Witness ==
    \E n \in Returned :
        /\ pipes[n].result.success
        /\ pipes[n].result.enhancedPrompt = JSNull
        /\ pipes[n].net[2].text = Trim(pipes[n].prompt)

C8_FailsOnlyAtLast ==
    \A n \in Called :
        LET t == pipes[n].tried
        IN  /\ \A k \in 1..Len(t) :
                  (t[k].out = "threw" /\ k < Len(services)) => Len(t) > k
            /\ (pipes[n].pc = "done" /\ ~pipes[n].result.success /\ pipes[n].net # <<>>) =>
                  /\ Len(t) = Len(services)
                  /\ t[Len(t)].svc = "Fallback"
                  /\ t[Len(t)].out = "threw"
                  /\ pipes[n].result.error = ERR_ALL_UNAVAILABLE
            /\ (Len(t) = Len(services) /\ t[Len(t)].out = "threw") =>
                  /\ pipes[n].pc = "done"
                  /\ ~pipes[n].result.success
                  /\ pipes[n].result.error = ERR_ALL_UNAVAILABLE

\* C8 witness: all four strategies threw and the call reports that all
\* services are unavailable.
C8_Witness ==
    \E n \in Returned :
        /\ Len(pipes[n].tried) = Len(services)
        /\ \A k \in 1..Len(services) : pipes[n].tried[k].out = "threw"
        /\ ~pipes[n].result.success
        /\ pipes[n].result.error = ERR_ALL_UNAVAILABLE

\* ----------------------------------------------------------------------
\* C9.  At most one generation pipeline is in flight for the controller in
\* every interleaving of submissions, edits, resets and backend completions,
\* and isGenerating is true exactly while it is.  A submission that arrives
\* while isGenerating is true is a no-op: no call of generateImage starts
\* (pipes and the count of calls are unchanged) and neither the controller
\* nor the storage changes, so two rapid submissions give one sequence of
\* network attempts.
C9_OneInFlight ==
    /\ Cardinality(Running) <= 1
    /\ app.isGenerating <=> Running # {}

C9_BlockedSubmitIsNoOp ==
    (event'.name = "submit" /\ app.isGenerating)
        => UNCHANGED <<pipes, clock, app, storage>>

\* C9: at most one pipeline is ever in flight, and a submission made while
\* isGenerating is true changes nothing.
C9_AtMostOnePipeline == []C9_OneInFlight /\ [][C9_BlockedSubmitIsNoOp]_vars

\* A second submission has arrived while the first generation, already past
\* its enhancement request, was still in flight.
C9_Witness ==
    /\ event.name = "submit"
    /\ app.isGenerating
    /\ clock = 1
    /\ Cardinality(Running) = 1
    /\ \E n \in Running : pipes[n].pc # "gemini fetch"

\* ----------------------------------------------------------------------
\* C10.  The persisted history never holds more than 50 entries and is
\* ordered newest first; every successful generation puts its entry at
\* index 1 (index 0 of the source), moves the earlier entries down by one
\* and keeps the first 50, so the list is the most recent min(n, 50)
\* entries and the 51st insertion evicts the oldest.
history == storage.history

C10_Bounded ==
    /\ Len(history) <= HistoryLimit
    /\ \A k \in 1..(Len(history) - 1) :
         history[k].timestamp = history[k + 1].timestamp + 1

C10_Prepends ==
    (event'.name = "settled" /\ event'.result.success) =>
        LET h == storage'.history
        IN  /\ Len(h) = IF Len(history) < HistoryLimit THEN Len(history) + 1
                        ELSE HistoryLimit
            /\ h[1].imageUrl = event'.result.imageUrl
            /\ h[1].prompt = event'.result.prompt
            /\ h[1].timestamp = event'.result.timestamp
            /\ \A k \in 2..Len(h) : h[k] = history[k - 1]

\* C10: the history holds at most 50 entries, newest first, and a successful
\* generation prepends its entry and evicts what falls past the 50th place.
C10_HistoryNewestFirst == []C10_Bounded /\ [][C10_Prepends]_vars

\* 51 generations in a row have succeeded: 50 entries are left, the 51st
\* first, the 2nd last, the 1st gone.
C10_Witness ==
    /\ Len(history) = HistoryLimit
    /\ history[1].timestamp = HistoryLimit + 1
    /\ history[HistoryLimit].timestamp = 2
    /\ \A k \in 1..Len(history) : history[k].timestamp # 1

\* ----------------------------------------------------------------------
\* C11.  resetForm in a Result state (no generation running, an image
\* shown) returns the controller to Idle: currentImageUrl is null, the
\* result section is hidden, the prompt field is empty and the persisted
\* last prompt is absent.  The last prompt then stays absent for as long as
\* the prompt field stays empty, also when the debounced savePrompt
\* scheduled before the reset fires afterwards.
ResultState ==
    /\ ~app.isGenerating
    /\ app.resultSection = "block"
    /\ app.imageResult = "block"
    /\ app.currentImageUrl # JSNull

C11_ResetStep ==
    (event'.name = "reset" /\ ResultState) =>
        /\ ~app'.isGenerating
        /\ app'.currentImageUrl = JSNull
        /\ app'.resultSection = "none"
        /\ app'.promptInput = EmptyStr
        /\ storage'.lastPrompt = JSNull
        /\ Running = {} /\ pipes' = pipes

C11_StaysAbsent ==
    (/\ storage.lastPrompt = JSNull
     /\ Length(Trim(app.promptInput)) = 0
     /\ Length(Trim(app'.promptInput)) = 0) => storage'.lastPrompt = JSNull

\* C11: a reset in a Result state gives Idle with no image and no persisted
\* prompt, and no step that leaves the prompt field empty persists a prompt.
C11_ResetToIdle == [][C11_ResetStep /\ C11_StaysAbsent]_vars

\* After a generation succeeded and the form was reset, the debounce timer
\* of the prompt field has fired and the last prompt is still absent.
C11_Witness ==
    /\ event.name = "save prompt"
    /\ Len(storage.history) > 0
    /\ app.currentImageUrl = JSNull
    /\ app.promptInput = EmptyStr
    /\ storage.lastPrompt = JSNull

\* ----------------------------------------------------------------------
\* C12.  A submission with an API key or a prompt that is empty after
\* trimming leaves the controller where it was (isGenerating,
\* currentImageUrl, the result section, the history), does not call
\* generateImage of the client and surfaces exactly one error notification.
InvalidForm ==
    \/ KeyLength(TrimKey(app.apiKeyInput)) = 0
    \/ Length(Trim(app.promptInput)) = 0

C12_Frame ==
    /\ UNCHANGED <<pipes, clock, app, storage>>
    /\ Len(toasts') = 1
    /\ toasts'[1].type = "error"

\* C12 as stated: for every submission of an invalid form.
C12_AsStated == [][(event'.name = "submit" /\ InvalidForm) => C12_Frame]_vars

\* C12, amended: for every submission of an invalid form made while no
\* generation is in flight, nothing changes, no call starts and one error
\* notification is surfaced.
C12_InvalidSubmitStays ==
    [][(event'.name = "submit" /\ InvalidForm /\ ~app.isGenerating) => C12_Frame]_vars

\* The form was submitted with a key and an empty prompt.
C12_Witness ==
    /\ event.name = "submit"
    /\ ~app.isGenerating
    /\ KeyLength(TrimKey(app.apiKeyInput)) > 0
    /\ Length(Trim(app.promptInput)) = 0
    /\ toasts = <<Toast("error", "enter image description")>>

\* ----------------------------------------------------------------------
\* C13.  Whenever the client returns a successful GenerationResult to the
\* controller, the controller leaves Generating: isGenerating becomes
\* false, currentImageUrl is result.imageUrl, the image result is displayed
\* and the spinner hidden, exactly one history entry for the result is
\* persisted, at the head of the history, and the only notification is one
\* success toast.
Delivered(e) == e.name \in {"settled", "submit"} /\ "success" \in DOMAIN e.result
Succeeded(e) == Delivered(e) /\ e.result.success
Refused(e) == Delivered(e) /\ ~e.result.success

C13_SuccessStep ==
    Succeeded(event') =>
        LET r == event'.result
            h == storage'.history
        IN  /\ app.isGenerating /\ ~app'.isGenerating
            /\ ~app'.generateBtnDisabled
            /\ app'.currentImageUrl = r.imageUrl
            /\ app'.imageResult = "block"
            /\ app'.loadingSpinner = "none"
            /\ Len(h) = IF Len(history) < HistoryLimit THEN Len(history) + 1
                        ELSE HistoryLimit
            /\ h[1].imageUrl = r.imageUrl
            /\ h[1].prompt = r.prompt
            /\ h[1].timestamp = r.timestamp
            /\ \A k \in 2..Len(h) : h[k] = history[k - 1]
            /\ Cardinality({k \in 1..Len(h) : h[k].timestamp = r.timestamp}) = 1
            /\ toasts' = <<Toast("success", "image generated")>>

C14_FailureStep ==
    Refused(event') =>
        /\ ~app'.isGenerating
        /\ app'.resultSection = "none"
        /\ app'.loadingSpinner = "none"
        /\ toasts' = <<Toast("error", event'.result.error)>>
        /\ storage' = storage

C14_OnlySuccessSaves == history' # history => Succeeded(event')

\* C14: a failed result hides the result section, shows one error
\* notification with the result's message and leaves the history alone;
\* only successful generations add to the history.
C14_FailureToError == [][C14_FailureStep /\ C14_OnlySuccessSaves]_vars

\* After one successful generation a second one has failed with every
\* backend down: the section is hidden and the history still has one entry.
C14_Witness ==
    /\ Refused(event)
    /\ event.name = "settled"
    /\ event.result.error = ERR_ALL_UNAVAILABLE
    /\ toasts = <<Toast("error", ERR_ALL_UNAVAILABLE)>>
    /\ app.resultSection = "none"
    /\ Len(history) = 1

\* ----------------------------------------------------------------------
\* C15.  If every request and image load completes or errors in the end,
\* every started generation leaves Generating: isGenerating becomes false
\* with the generate button enabled, whatever failed.  A valid submission
\* made while isGenerating is false is accepted: it starts a call of the
\* client.
C15_Accepted ==
    (event'.name = "submit" /\ ~app.isGenerating /\ ~InvalidForm)
        => clock' = clock + 1

\* C15: Generating always ends, with the button enabled, and then a valid
\* submission starts a new pipeline.
C15_LeavesGenerating ==
    /\ app.isGenerating ~> (~app.isGenerating /\ ~app.generateBtnDisabled)
    /\ [][C15_Accepted]_vars

\* A first generation has ended and a second submission has been accepted.
C15_Witness ==
    /\ event.name = "submit"
    /\ clock = 2
    /\ app.isGenerating
    /\ Cardinality(Running) = 1

\* ----------------------------------------------------------------------
\* C16.  A generation cannot be aborted and its late result is not
\* discarded: a reset leaves the pipeline in flight and isGenerating as
\* they are, and when a generation the form was reset under (the result
\* section hidden while isGenerating is true) succeeds, the controller sets
\* currentImageUrl to its image and persists a history entry for it.
C16_NoAbort ==
    event'.name = "reset" =>
        /\ pipes' = pipes
        /\ app'.isGenerating = app.isGenerating

C16_StaleWritten ==
    (Succeeded(event') /\ app.isGenerating /\ app.resultSection = "none") =>
        /\ app'.currentImageUrl = event'.result.imageUrl
        /\ app'.currentImageUrl # JSNull
        /\ Len(storage'.history) = Len(history) + 1
        /\ storage'.history[1].imageUrl = event'.result.imageUrl
        /\ storage'.history[1].timestamp = event'.result.timestamp

\* C16: a reset made while a generation is in flight stops nothing, and the
\* late success is written to currentImageUrl and to the history.
C16_StaleResultKept == [][C16_NoAbort /\ C16_StaleWritten]_vars

\* The form was reset while a generation was in flight, and the generation
\* has then succeeded: its image is current and first in the history, the
\* result section still hidden and the prompt field still empty.
C16_Witness ==
    /\ Succeeded(event)
    /\ app.resultSection = "none"
    /\ app.promptInput = EmptyStr
    /\ app.currentImageUrl = event.result.imageUrl
    /\ Len(history) > 0
    /\ history[1].timestamp = event.result.timestamp

\* ----------------------------------------------------------------------
\* C17.  The Stable Diffusion strategy answers every failure of its own
\* request (rejected fetch, non-2xx status, unreadable JSON, no artifacts,
\* undecodable base64) by loading the alternate URL; the locally
\* synthesized image is the result only after DeepAI, Pollinations, Stable
\* Diffusion and the alternate URL have all failed, and when the alternate
\* URL loads, its URL is the result.
LocalImages == {CanvasDataUrl, PlainDataUrl}
Targets(p) == [k \in 1..Len(p.net) |-> p.net[k].to]

C17_LocalLast ==
    \A n \in Slots :
        LET p == pipes[n]
        IN  (p.pc = "done" /\ p.result.success /\ p.result.imageUrl \in LocalImages) =>
                /\ [k \in 1..Len(p.tried) |-> p.tried[k].svc] = services
                /\ \A k \in 1..3 : p.tried[k].out = "threw"
                /\ Len(p.net) >= 2
                /\ SubSeq(Targets(p), Len(p.net) - 1, Len(p.net))
                       = <<"api.stability.ai", "simple image">>

C17_StabilityStep ==
    \A n \in Slots :
        LET p == pipes[n]
            q == pipes'[n]
        IN  /\ (p.pc = "stability fetch" /\ q # p) =>
                \/ q.pc = "simple image"
                \/ q.pc = "done" /\ q.result.success /\ q.result.imageUrl = BlobUrl
            /\ (p.pc = "simple image" /\ q # p) =>
                /\ q.pc = "done"
                /\ \/ /\ q.result.success
                      /\ q.result.imageUrl = UnsplashUrl
                      /\ q.tried[3].out = "returned"
                      /\ Len(q.tried) = 3
                   \/ /\ q.tried[3].out = "threw"
                      /\ Len(q.tried) = 4
                      /\ q.result.success => q.result.imageUrl \in LocalImages

\* C17: Stable Diffusion falls back to the alternate URL on every failure;
\* the local image comes only after all four network strategies failed, and
\* a loaded alternate URL is the result.
C17_StabilityFallsBack == []C17_LocalLast /\ [][C17_StabilityStep]_vars

\* The Stability request failed and the alternate URL loaded: it is the result.
C17_Witness ==
    \E n \in Slots :
        /\ pipes[n].pc = "done"
        /\ pipes[n].result.success
        /\ pipes[n].result.imageUrl = UnsplashUrl
        /\ pipes[n].tried[3].svc = "StableDiffusion"
        /\ pipes[n].tried[3].out = "returned"
        /\ "api.stability.ai" \in {pipes[n].net[k].to : k \in 1..Len(pipes[n].net)}

\* ----------------------------------------------------------------------
\* C18.  A submission with a key of the required format and a raw prompt of
\* 1 to 500 characters, none of them blank, is never rejected for its
\* length, whatever the style, the quality and the watermark option.
C18_RawLimit ==
    (/\ event'.name = "submit"
     /\ ~app.isGenerating
     /\ validateApiKey(app.apiKeyInput)
     /\ app.promptInput.pad = 0
     /\ Length(app.promptInput) \in 1..MaxPromptLength)
        => ~(Refused(event') /\ event'.result.error = ERR_PROMPT_TOO_LONG)

\* C18: no raw prompt of 1 to 500 characters is rejected as too long.
C18_AsStated == [][C18_RawLimit]_vars

\* ----------------------------------------------------------------------
\* C19.  After setup and after any sequence of language and theme toggles
\* the persisted language is LanguageHelper.currentLanguage, the document's
\* direction is rtl exactly when the language is 'ar', and the persisted
\* theme is ThemeHelper.currentTheme and the data-theme attribute.  A
\* toggle changes the value to the other of its two options, so two
\* toggles in a row restore it.
C19_InSync ==
    /\ app.currentLanguage \in Languages
    /\ storage.language = app.currentLanguage
    /\ app.lang = app.currentLanguage
    /\ app.dir \in {"rtl", "ltr"}
    /\ app.dir = "rtl" <=> app.currentLanguage = "ar"
    /\ app.currentTheme \in Themes
    /\ storage.theme = app.currentTheme
    /\ app.dataTheme = app.currentTheme

C19_ToggleFlips ==
    /\ event'.name = "theme toggle" =>
          /\ app'.currentTheme # app.currentTheme
          /\ app'.currentLanguage = app.currentLanguage
    /\ event'.name = "language toggle" =>
          /\ app'.currentLanguage # app.currentLanguage
          /\ app'.currentTheme = app.currentTheme

\* C19: the persisted preferences, the helpers' fields and the document's
\* attributes agree, and each toggle flips its value between two options.
C19_PreferencesInSync == []C19_InSync /\ [][C19_ToggleFlips]_vars

\* The language has been toggled to English under a dark theme.
C19_Witness ==
    /\ event.name = "language toggle"
    /\ app.currentLanguage = "en"
    /\ app.dir = "ltr"
    /\ storage.language = "en"
    /\ app.currentTheme = "dark"
    /\ storage.theme = "dark"

\* ----------------------------------------------------------------------
\* C20.  Whenever no generation is in flight and both the API key field and
\* the prompt field are non-empty after trimming, the generate button is
\* enabled.
C20_ButtonEnabled ==
    (/\ ~app.isGenerating
     /\ KeyLength(TrimKey(app.apiKeyInput)) > 0
     /\ Length(Trim(app.promptInput)) > 0) => ~app.generateBtnDisabled

\* ----------------------------------------------------------------------
\* C21.  currentImageUrl is non-null only while the result section is
\* shown: in every state where the section is hidden, currentImageUrl is
\* null.
C21_NoStaleImage == app.resultSection = "none" => app.currentImageUrl = JSNull

\* ----------------------------------------------------------------------
\* C22.  The persisted last prompt is absent or a non-empty trimmed string
\* that the prompt field held, trimmed, when it was saved; a step that
\* leaves the field empty or blank writes nothing, and only resetForm or
\* clearAll removes a persisted prompt.
C22_Trimmed ==
    \/ storage.lastPrompt = JSNull
    \/ /\ IsString(storage.lastPrompt)
       /\ storage.lastPrompt.pad = 0
       /\ Length(storage.lastPrompt) > 0

C22_Step ==
    /\ (storage'.lastPrompt # storage.lastPrompt /\ storage'.lastPrompt # JSNull)
          => /\ event'.name \in {"save prompt", "example"}
             /\ storage'.lastPrompt = Trim(app'.promptInput)
    /\ (storage.lastPrompt # JSNull /\ storage'.lastPrompt = JSNull)
          => event'.name \in {"reset", "clear"}
    /\ (event'.name \in {"prompt input", "save prompt"}
           /\ Length(Trim(app'.promptInput)) = 0)
          => storage'.lastPrompt = storage.lastPrompt

C22_LastPromptSaved == []C22_Trimmed /\ [][C22_Step]_vars

\* The debounced save has fired on a blanked field and the prompt saved
\* earlier, typed with surrounding whitespace, is still there.
C22_Witness ==
    /\ event.name = "save prompt"
    /\ Length(app.promptInput) > 0
    /\ Length(Trim(app.promptInput)) = 0
    /\ storage.lastPrompt = Str("user", 0, 2)

\* ----------------------------------------------------------------------
\* C23.  A system color-scheme change changes the applied theme only while
\* no theme is persisted.  ThemeHelper.init persists the theme it applies,
\* and no step but clearAll removes it, so after init a system color-scheme
\* change leaves currentTheme, data-theme and the persisted theme as they
\* were.
C23_InitPersists == event.name = "setup" => storage.theme \in Themes

C23_Step ==
    /\ (event'.name # "clear" /\ storage.theme # NoPref) => storage'.theme # NoPref
    /\ event'.name = "system theme" =>
          IF storage.theme # NoPref
          THEN /\ app'.currentTheme = app.currentTheme
               /\ app'.dataTheme = app.dataTheme
               /\ storage'.theme = storage.theme
          ELSE /\ app'.currentTheme = app'.dataTheme
               /\ storage'.theme = app'.currentTheme

C23_SystemChangeIgnored == []C23_InitPersists /\ [][C23_Step]_vars

\* The system has switched its color scheme after init, with the theme
\* persisted and the page's theme kept.
C23_Witness ==
    /\ event.name = "system theme"
    /\ storage.theme \in Themes
    /\ app.currentTheme = storage.theme

\* ----------------------------------------------------------------------
\* C24.  A function wrapped by Utils.debounce(func, wait) runs exactly once
\* per burst of calls: the runs of func made so far are, in order, one for
\* each call that was followed by no other call for `wait`, made `wait`
\* after that call and with its arguments; so func does not run during a
\* burst.
LastOfBurst(i) ==
    \/ i = Len(debounced.calls)
    \/ debounced.calls[i + 1].at - debounced.calls[i].at >= Wait

BurstOver(i) ==
    /\ LastOfBurst(i)
    /\ \/ i < Len(debounced.calls)
       \/ debounced.now > debounced.calls[i].at + Wait
       \/ debounced.now = debounced.calls[i].at + Wait /\ debounced.timeout = NoTimer

RECURSIVE RunsDue(_)
RunsDue(i) ==
    IF i = 0 THEN <<>>
    ELSE IF BurstOver(i)
         THEN Append(RunsDue(i - 1),
                     [at |-> debounced.calls[i].at + Wait, args |-> debounced.calls[i].args])
         ELSE RunsDue(i - 1)

C24_OncePerBurst == debounced.runs = RunsDue(Len(debounced.calls))

\* Two calls one tick apart with different arguments, and func has run
\* once, `wait` after the second and with its arguments.
C24_Witness ==
    /\ Len(debounced.calls) = 2
    /\ debounced.calls[2].at = debounced.calls[1].at + 1
    /\ debounced.calls[2].args # debounced.calls[1].args
    /\ debounced.runs = <<[at |-> debounced.calls[2].at + Wait,
                           args |-> debounced.calls[2].args]>>

====
